---- MODULE Spec2Model ----
(***************************************************************************)
(* Model of the in-memory REST store of in-mem-rest-api                    *)
(* (src/src/database.rs, src/src/main.rs).                                 *)
(*                                                                         *)
(* Strings (paths, identifiers) are sequences of characters, so that       *)
(* str::split('/') and [..].join("/") are computed, not assumed.           *)
(* A serde_json::Value is a record [t |-> kind, v |-> payload].            *)
(* A HashMap<String, Arc<Value>> (one collection) is the sequence of its   *)
(* entries in iteration order; the outer HashMap is never iterated and is  *)
(* a function from paths to collections.                                   *)
(***************************************************************************)
EXTENDS Integers, Sequences, FiniteSets, TLC

VARIABLES
  data,      \* Database.data: path -> collection
  uuids,     \* the identifiers random_uuid has produced so far
  poisoned,  \* whether the Mutex is poisoned
  last,      \* the last completed call of the single caller, with its result
  pending,   \* the get the single caller is inside: its id lookup has
             \* returned None and its self.get_all(path) has yet to lock
  count,     \* path -> number of inserts that returned Ok at that path
  log,       \* [path, uuid, value]: what each insert generated and returned
  lock,      \* 0 when the Mutex is free, else the caller holding the guard
  pc,        \* concurrent callers: position of each
  call,      \* concurrent callers: the call each is executing
  phase,     \* concurrent callers: the store operation the call is at
  ret        \* concurrent callers: the value each call returned

vars == <<data, uuids, poisoned, last, pending, count, log, lock, pc, call, phase, ret>>

(***************************************************************************)
(* Bounds                                                                  *)
(***************************************************************************)
MaxInserts == 2
NumProcs == 3

(***************************************************************************)
(* Strings                                                                 *)
(***************************************************************************)
Slash == "/"

\* str::split(sep): the segments between separators; never empty
\* ("" splits into one empty segment).
RECURSIVE SplitFrom(_, _, _)
SplitFrom(s, sep, cur) ==
  IF s = <<>> THEN <<cur>>
  ELSE IF Head(s) = sep THEN <<cur>> \o SplitFrom(Tail(s), sep, <<>>)
  ELSE SplitFrom(Tail(s), sep, Append(cur, Head(s)))

Split(s, sep) == SplitFrom(s, sep, <<>>)

\* [&str]::join(sep)
RECURSIVE Join(_, _)
Join(segs, sep) ==
  IF segs = <<>> THEN <<>>
  ELSE IF Len(segs) = 1 THEN segs[1]
  ELSE segs[1] \o <<sep>> \o Join(Tail(segs), sep)

\* The identifiers the generator can produce: strings without '/'.
\* One per insert the model allows.
UuidNames == <<"x", "y", "z", "w", "v">>
Uuids == {<<UuidNames[i]>> : i \in 1..MaxInserts}

PRoot == <<>>
PAB == <<"/", "a", "/", "b">>
PABSlash == <<"/", "a", "/", "b", "/">>
PABX == <<"/", "a", "/", "b", "/", "x">>
PABNotAnId == <<"/", "a", "/", "b", "/", "n", "o", "t", "-", "a", "n", "-", "i", "d">>

\* Paths callers insert at, and paths callers read.
InsertPaths == {PRoot, PAB, PABSlash, PABX}
ItemPath(p, id) == p \o <<Slash>> \o id
GetPaths == InsertPaths \cup {ItemPath(p, u) : p \in InsertPaths, u \in Uuids}
              \cup Uuids \cup {PABNotAnId}
GetAllPaths == InsertPaths \cup {PABNotAnId}
ReadIds == Uuids \cup {<<"n">>}

(***************************************************************************)
(* serde_json::Value                                                       *)
(***************************************************************************)
JNumber(n) == [t |-> "Number", v |-> n]
JString(s) == [t |-> "String", v |-> s]
JArray(a) == [t |-> "Array", v |-> a]
JObject(m) == [t |-> "Object", v |-> m]

\* A function from the given keys, written as a set of <<key, value>> pairs.
MapOf(pairs) ==
  [k \in {p[1] : p \in pairs} |-> (CHOOSE p \in pairs : p[1] = k)[2]]

\* Map::insert(k, val) on a JSON object's map: sets or overwrites the key.
MapInsert(m, k, val) ==
  [x \in DOMAIN m \cup {k} |-> IF x = k THEN val ELSE m[x]]

\* Documents clients post.
DocPlain == JObject(MapOf({<<"firstName", JString(<<"J">>)>>}))
DocWithId == JObject(MapOf({<<"id", JString(<<"x">>)>>, <<"firstName", JString(<<"J">>)>>}))
DocArray == JArray(<<JNumber(1)>>)
DocScalar == JNumber(1)
Docs == {DocPlain, DocWithId, DocArray, DocScalar}

\* json!({ "items": values })
Items(values) == JObject(MapOf({<<"items", JArray(values)>>}))

(***************************************************************************)
(* Option and Result                                                       *)
(***************************************************************************)
None == [some |-> FALSE, v |-> JNumber(0)]
Some(x) == [some |-> TRUE, v |-> x]
Ok(x) == [ok |-> TRUE, v |-> x]
LockError == "Cannot obtain lock"
Err(msg) == [ok |-> FALSE, v |-> msg]

(***************************************************************************)
(* HashMap<String, Arc<Value>>: entries in iteration order                 *)
(***************************************************************************)
Keys(m) == {m[i].k : i \in 1..Len(m)}
Values(m) == [i \in 1..Len(m) |-> m[i].v]
Lookup(m, k) == m[CHOOSE i \in 1..Len(m) : m[i].k = k].v

Perms(S) ==
  {f \in [1..Cardinality(S) -> S] : \A i, j \in 1..Cardinality(S) : f[i] = f[j] => i = j}

\* HashMap::insert: an existing key keeps its slot and gets the new value; a
\* new key lands in a slot its hash decides and growing the table may move
\* the others, so any iteration order of the new entry set can result.
HashMapInsert(m, k, val) ==
  IF k \in Keys(m)
  THEN {[i \in 1..Len(m) |-> IF m[i].k = k THEN [k |-> k, v |-> val] ELSE m[i]]}
  ELSE Perms({m[i] : i \in 1..Len(m)} \cup {[k |-> k, v |-> val]})

(***************************************************************************)
(* Database                                                                *)
(***************************************************************************)
\* uuid::Uuid::new_v4().to_string(): 122 random bits; a value already
\* produced is not produced again.
random_uuid(produced) == Uuids \ produced

\* Mutant: an id the client supplied is kept.
add_id_keeps_existing(json, uuid) ==
  IF json.t = "Object" /\ "id" \notin DOMAIN json.v
  THEN JObject(MapInsert(json.v, "id", JString(uuid)))
  ELSE json

\* Mutant: a non-object document is wrapped into an object carrying the id.
add_id_wraps(json, uuid) ==
  IF json.t = "Object"
  THEN JObject(MapInsert(json.v, "id", JString(uuid)))
  ELSE JObject(MapOf({<<"id", JString(uuid)>>, <<"value", json>>}))

add_id(json, uuid) ==
  IF json.t = "Object"
  THEN JObject(MapInsert(json.v, "id", JString(uuid)))
  ELSE json

\* Mutant: the collection is always created anew, dropping what path held.
Database_insert_fresh_map(db, path, json, id) ==
  LET value == add_id(json, id)
  IN {[data |-> [p \in DOMAIN db \cup {path} |->
                   IF p = path THEN <<[k |-> id, v |-> value]>> ELSE db[p]],
       arc |-> value]}

\* Mutant: the document is stored as the client sent it, without the id.
Database_insert_stores_original(db, path, json, id) ==
  LET value == add_id(json, id)
  IN IF path \in DOMAIN db
     THEN {[data |-> [db EXCEPT ![path] = m2], arc |-> value] :
             m2 \in HashMapInsert(db[path], id, json)}
     ELSE {[data |-> [p \in DOMAIN db \cup {path} |->
                        IF p = path THEN m2 ELSE db[p]],
            arc |-> value] :
             m2 \in HashMapInsert(<<>>, id, json)}

\* Database::insert with the identifier random_uuid() returned: the possible
\* outcomes [data, arc].
Database_insert(db, path, json, id) ==
  LET value == add_id(json, id)
  IN IF path \in DOMAIN db
     THEN {[data |-> [db EXCEPT ![path] = m2], arc |-> value] :
             m2 \in HashMapInsert(db[path], id, value)}
     ELSE {[data |-> [p \in DOMAIN db \cup {path} |->
                        IF p = path THEN m2 ELSE db[p]],
            arc |-> value] :
             m2 \in HashMapInsert(<<>>, id, value)}

\* Mutant: the items of every collection, whatever the path.
Database_get_all_everything(db, path) ==
  LET RECURSIVE Cat(_)
      Cat(S) == IF S = {} THEN <<>>
                ELSE LET p == CHOOSE p \in S : TRUE
                     IN Values(db[p]) \o Cat(S \ {p})
  IN Items(Cat(DOMAIN db))

Database_get_all(db, path) ==
  Items(IF path \in DOMAIN db THEN Values(db[path]) ELSE <<>>)

\* Mutant: the id is looked up in every collection.
Database_get_by_id_any_path(db, path, id) ==
  IF \E p \in DOMAIN db : id \in Keys(db[p])
  THEN Some(Lookup(db[CHOOSE p \in DOMAIN db : id \in Keys(db[p])], id))
  ELSE None

Database_get_by_id(db, path, id) ==
  IF path \notin DOMAIN db THEN None
  ELSE IF id \in Keys(db[path]) THEN Some(Lookup(db[path], id))
  ELSE None

(***************************************************************************)
(* ConcurrentDatabase = Arc<Mutex<Database>>: each method locks the Mutex,  *)
(* runs the Database method and drops the guard when it returns.           *)
(***************************************************************************)
\* Mutant: a poisoned Mutex is locked all the same.
LockFails_never(isPoisoned) == FALSE

\* Mutex::lock() fails exactly when the mutex is poisoned.
LockFails(isPoisoned) == isPoisoned

ConcurrentDatabase_get_all(db, isPoisoned, path) ==
  IF LockFails(isPoisoned) THEN Err(LockError)
  ELSE Ok(Database_get_all(db, path))

\* Mutant: an id that is not found is reported as an error.
ConcurrentDatabase_get_by_id_not_found_err(db, isPoisoned, path, id) ==
  IF LockFails(isPoisoned) THEN Err(LockError)
  ELSE IF Database_get_by_id(db, path, id).some
       THEN Ok(Database_get_by_id(db, path, id))
       ELSE Err("Not found")

ConcurrentDatabase_get_by_id(db, isPoisoned, path, id) ==
  IF LockFails(isPoisoned) THEN Err(LockError)
  ELSE Ok(Database_get_by_id(db, path, id))

\* The arguments of the get_by_id that get makes: parent.join("/") and the
\* last segment.
GetParent(path) ==
  LET segs == Split(path, Slash) IN Join(SubSeq(segs, 1, Len(segs) - 1), Slash)
GetTail(path) ==
  LET segs == Split(path, Slash) IN segs[Len(segs)]

\* ConcurrentDatabase::get when no other guard holder runs between its
\* self.get_by_id(..) and its self.get_all(path).  The slice pattern
\* [parent @ .., id] matches every non-empty slice, and split never returns
\* an empty one.
ConcurrentDatabase_get(db, isPoisoned, path) ==
  LET segs == Split(path, Slash)
  IN IF Len(segs) >= 1
     THEN LET parent == SubSeq(segs, 1, Len(segs) - 1)
              id == segs[Len(segs)]
              found == ConcurrentDatabase_get_by_id(db, isPoisoned, Join(parent, Slash), id)
          IN IF ~found.ok THEN found
             ELSE IF found.v.some THEN Ok(found.v.v)
             ELSE ConcurrentDatabase_get_all(db, isPoisoned, path)
     ELSE ConcurrentDatabase_get_all(db, isPoisoned, path)

\* No HTTP response (a call made on the store directly).
NoResponse == [status |-> 0, contentType |-> "", body |-> JNumber(0)]

\* The record of a call: operation, arguments, the identifier generated for
\* it, its result, the HTTP response made from the result, and (for a get
\* in flight among concurrent callers) what the call would return if it ran
\* as a whole on each store state since it was invoked.
NoCall == [op |-> "none", path |-> <<>>, id |-> <<>>, json |-> JNumber(0),
           uuid |-> <<>>, result |-> Ok(JNumber(0)), response |-> NoResponse,
           seen |-> {}]

TotalInserts == LET RECURSIVE Sum(_)
                    Sum(S) == IF S = {} THEN 0
                              ELSE LET p == CHOOSE p \in S : TRUE
                                   IN count[p] + Sum(S \ {p})
                IN Sum(DOMAIN count)

Procs == 1..NumProcs

Init ==
  /\ data = <<>>
  /\ uuids = {}
  /\ poisoned = FALSE
  /\ last = NoCall
  /\ pending = NoCall
  /\ count = [p \in InsertPaths |-> 0]
  /\ log = {}
  /\ lock = 0
  /\ pc = [i \in Procs |-> "idle"]
  /\ call = [i \in Procs |-> NoCall]
  /\ phase = [i \in Procs |-> "none"]
  /\ ret = [i \in Procs |-> Ok(JNumber(0))]

concVars == <<lock, pc, call, phase, ret>>

\* ConcurrentDatabase::insert, whole call (one critical section).
Insert(path, json) ==
  /\ pending = NoCall
  /\ TotalInserts < MaxInserts
  /\ IF LockFails(poisoned)
     THEN /\ last' = [NoCall EXCEPT !.op = "insert", !.path = path, !.json = json,
                                    !.result = Err(LockError)]
          /\ UNCHANGED <<data, uuids, count, log>>
     ELSE \E id \in random_uuid(uuids) :
          \E r \in Database_insert(data, path, json, id) :
            /\ data' = r.data
            /\ uuids' = uuids \cup {id}
            /\ last' = [NoCall EXCEPT !.op = "insert", !.path = path, !.json = json,
                                      !.uuid = id, !.result = Ok(r.arc)]
            /\ count' = [count EXCEPT ![path] = @ + 1]
            /\ log' = log \cup {[path |-> path, uuid |-> id, value |-> r.arc]}
  /\ UNCHANGED <<poisoned, pending, concVars>>

\* Mutant: a path that names a collection is served as that collection
\* before the id lookup is tried.
Get_collection_first(path) ==
  /\ pending = NoCall
  /\ LET segs == Split(path, Slash)
         parent == SubSeq(segs, 1, Len(segs) - 1)
         id == segs[Len(segs)]
         found == ConcurrentDatabase_get_by_id(data, poisoned, Join(parent, Slash), id)
     IN IF path \in DOMAIN data
        THEN /\ last' = [NoCall EXCEPT !.op = "get", !.path = path,
                           !.result = ConcurrentDatabase_get_all(data, poisoned, path)]
             /\ pending' = NoCall
        ELSE IF ~found.ok
        THEN /\ last' = [NoCall EXCEPT !.op = "get", !.path = path, !.result = found]
             /\ pending' = NoCall
        ELSE IF found.v.some
        THEN /\ last' = [NoCall EXCEPT !.op = "get", !.path = path, !.result = Ok(found.v.v)]
             /\ pending' = NoCall
        ELSE /\ last' = NoCall
             /\ pending' = [NoCall EXCEPT !.op = "get", !.path = path]
  /\ UNCHANGED <<data, uuids, poisoned, count, log, concVars>>

\* ConcurrentDatabase::get up to the return of its self.get_by_id(..)?, a
\* critical section of its own: the lock error and a found document are
\* get's result; on None (and in the arm for an empty slice) get goes on to
\* self.get_all(path), which locks anew (GetFallback).  The caller holds no
\* result while its call is under way.
Get(path) ==
  /\ pending = NoCall
  /\ LET segs == Split(path, Slash)
         parent == SubSeq(segs, 1, Len(segs) - 1)
         id == segs[Len(segs)]
         found == ConcurrentDatabase_get_by_id(data, poisoned, Join(parent, Slash), id)
     IN IF Len(segs) >= 1 /\ ~found.ok
        THEN /\ last' = [NoCall EXCEPT !.op = "get", !.path = path, !.result = found]
             /\ pending' = NoCall
        ELSE IF Len(segs) >= 1 /\ found.v.some
        THEN /\ last' = [NoCall EXCEPT !.op = "get", !.path = path, !.result = Ok(found.v.v)]
             /\ pending' = NoCall
        ELSE /\ last' = NoCall
             /\ pending' = [NoCall EXCEPT !.op = "get", !.path = path]
  /\ UNCHANGED <<data, uuids, poisoned, count, log, concVars>>

\* Mutant: the fallback lists the parent collection instead of the whole path.
GetFallback_parent ==
  /\ pending.op = "get"
  /\ last' = [NoCall EXCEPT !.op = "get", !.path = pending.path,
                            !.result = ConcurrentDatabase_get_all(data, poisoned,
                                                                  GetParent(pending.path))]
  /\ pending' = NoCall
  /\ UNCHANGED <<data, uuids, poisoned, count, log, concVars>>

\* The self.get_all(path) that ends a get whose id lookup found nothing: a
\* second critical section, on the store and the Mutex as they are by then.
GetFallback ==
  /\ pending.op = "get"
  /\ last' = [NoCall EXCEPT !.op = "get", !.path = pending.path,
                            !.result = ConcurrentDatabase_get_all(data, poisoned, pending.path)]
  /\ pending' = NoCall
  /\ UNCHANGED <<data, uuids, poisoned, count, log, concVars>>

\* Mutant: reading a path that is no collection creates it, empty.
GetAll_creates_collection(path) ==
  /\ pending = NoCall
  /\ last' = [NoCall EXCEPT !.op = "get_all", !.path = path,
                            !.result = ConcurrentDatabase_get_all(data, poisoned, path)]
  /\ data' = IF path \in DOMAIN data THEN data
             ELSE [p \in DOMAIN data \cup {path} |-> IF p = path THEN <<>> ELSE data[p]]
  /\ UNCHANGED <<uuids, poisoned, pending, count, log, concVars>>

\* ConcurrentDatabase::get_all, whole call (one critical section).
GetAll(path) ==
  /\ pending = NoCall
  /\ last' = [NoCall EXCEPT !.op = "get_all", !.path = path,
                            !.result = ConcurrentDatabase_get_all(data, poisoned, path)]
  /\ UNCHANGED <<data, uuids, poisoned, pending, count, log, concVars>>

\* ConcurrentDatabase::get_by_id, whole call (one critical section).
GetById(path, id) ==
  /\ pending = NoCall
  /\ last' = [NoCall EXCEPT !.op = "get_by_id", !.path = path, !.id = id,
                            !.result = ConcurrentDatabase_get_by_id(data, poisoned, path, id)]
  /\ UNCHANGED <<data, uuids, poisoned, pending, count, log, concVars>>

DoInsert == \E path \in InsertPaths, json \in Docs : Insert(path, json)
DoGet == \E path \in GetPaths : Get(path)
DoGetAll == \E path \in GetAllPaths : GetAll(path)
DoGetById == \E path \in InsertPaths, id \in ReadIds : GetById(path, id)

Next == DoInsert \/ DoGet \/ GetFallback \/ DoGetAll \/ DoGetById

\* One caller, making one call after the other, and no other holder of the
\* handle: nothing runs between the two critical sections of a get.  The
\* Mutex is never poisoned (no code path of the repository panics while
\* holding the guard).
Spec == Init /\ [][Next]_vars

\* Another holder of the shared handle panics while it holds the guard: the
\* Mutex is poisoned from then on.  This can happen while the caller is
\* between the two critical sections of a get.
Poison ==
  /\ ~poisoned
  /\ lock = 0
  /\ poisoned' = TRUE
  /\ UNCHANGED <<data, uuids, last, pending, count, log, concVars>>

\* The documents inserted where only the lock matters: an object and a
\* non-object.
ErrDocs == {DocPlain, DocScalar}

DoInsertErr == \E path \in InsertPaths, json \in ErrDocs : Insert(path, json)

NextErr == DoInsertErr \/ DoGet \/ GetFallback \/ DoGetAll \/ DoGetById \/ Poison

\* One caller, with a Mutex that may become poisoned at any time.
SpecErr == Init /\ [][NextErr]_vars

(***************************************************************************)
(* The HTTP filters of main: a GET calls get, a POST with a JSON body      *)
(* calls insert; the result becomes the response.  A response body is the  *)
(* JSON value whose text (to_string) is sent.                              *)
(***************************************************************************)
StatusOk == 200
StatusCreated == 201
StatusError == 500
JsonType == "application/json"

\* json!({ "error": message })
ErrorBody(message) == JObject(MapOf({<<"error", JString(message)>>}))

\* Mutant: an empty items list is answered as not found.
GetResponse_not_found(result) ==
  IF result.ok
  THEN IF result.v = Items(<<>>)
       THEN [status |-> 404, contentType |-> "", body |-> ErrorBody("Not found")]
       ELSE [status |-> StatusOk, contentType |-> JsonType, body |-> result.v]
  ELSE [status |-> StatusError, contentType |-> "", body |-> ErrorBody(result.v)]

GetResponse(result) ==
  IF result.ok
  THEN [status |-> StatusOk, contentType |-> JsonType, body |-> result.v]
  ELSE [status |-> StatusError, contentType |-> "", body |-> ErrorBody(result.v)]

PostResponse(result) ==
  IF result.ok
  THEN [status |-> StatusCreated, contentType |-> JsonType, body |-> result.v]
  ELSE [status |-> StatusError, contentType |-> "", body |-> ErrorBody(result.v)]

\* warp::path::full(): a request path starts with '/'.
HttpPostPaths == {PAB, PABSlash, PABX}
HttpGetPaths == HttpPostPaths \cup {ItemPath(p, u) : p \in HttpPostPaths, u \in Uuids}
                  \cup {PABNotAnId}

\* The get filter up to the return of the id lookup inside
\* database.get(path): the lock error and a found document are answered at
\* once; on None the request goes on to get's self.get_all(path)
\* (HttpGetFallback).
HttpGet(path) ==
  /\ pending = NoCall
  /\ LET segs == Split(path, Slash)
         parent == SubSeq(segs, 1, Len(segs) - 1)
         id == segs[Len(segs)]
         found == ConcurrentDatabase_get_by_id(data, poisoned, Join(parent, Slash), id)
     IN IF Len(segs) >= 1 /\ ~found.ok
        THEN /\ last' = [NoCall EXCEPT !.op = "GET", !.path = path, !.result = found,
                                       !.response = GetResponse(found)]
             /\ pending' = NoCall
        ELSE IF Len(segs) >= 1 /\ found.v.some
        THEN /\ last' = [NoCall EXCEPT !.op = "GET", !.path = path,
                                       !.result = Ok(found.v.v),
                                       !.response = GetResponse(Ok(found.v.v))]
             /\ pending' = NoCall
        ELSE /\ last' = NoCall
             /\ pending' = [NoCall EXCEPT !.op = "GET", !.path = path]
  /\ UNCHANGED <<data, uuids, poisoned, count, log, concVars>>

\* The rest of the get filter: get's self.get_all(path), on the store and
\* the Mutex as they are by then, and the response made from its result.
HttpGetFallback ==
  /\ pending.op = "GET"
  /\ LET result == ConcurrentDatabase_get_all(data, poisoned, pending.path)
     IN last' = [NoCall EXCEPT !.op = "GET", !.path = pending.path, !.result = result,
                               !.response = GetResponse(result)]
  /\ pending' = NoCall
  /\ UNCHANGED <<data, uuids, poisoned, count, log, concVars>>

\* The post filter: database.insert(path, json) is one critical section.  A
\* POST is served whether or not a GET is between its two.

HttpPost(path, json) ==
  /\ TotalInserts < MaxInserts
  /\ IF LockFails(poisoned)
     THEN /\ last' = [NoCall EXCEPT !.op = "POST", !.path = path, !.json = json,
                                    !.result = Err(LockError),
                                    !.response = PostResponse(Err(LockError))]
          /\ UNCHANGED <<data, uuids, count, log>>
     ELSE \E id \in random_uuid(uuids) :
          \E r \in Database_insert(data, path, json, id) :
            /\ data' = r.data
            /\ uuids' = uuids \cup {id}
            /\ last' = [NoCall EXCEPT !.op = "POST", !.path = path, !.json = json,
                                      !.uuid = id, !.result = Ok(r.arc),
                                      !.response = PostResponse(Ok(r.arc))]
            /\ count' = [count EXCEPT ![path] = @ + 1]
            /\ log' = log \cup {[path |-> path, uuid |-> id, value |-> r.arc]}
  /\ UNCHANGED <<poisoned, pending, concVars>>

DoHttpGet == \E path \in HttpGetPaths : HttpGet(path)
DoHttpPost == \E path \in HttpPostPaths, json \in Docs : HttpPost(path, json)

NextHttp == DoHttpGet \/ HttpGetFallback \/ DoHttpPost \/ Poison

\* Requests to the server: POSTs, and one GET at a time, which a POST or
\* the poisoning of the Mutex can overtake between its two critical
\* sections.
SpecHttp == Init /\ [][NextHttp]_vars

(***************************************************************************)
(* Concurrent callers of the shared ConcurrentDatabase.  Each caller makes *)
(* one call; a call is a sequence of store operations, each of which takes *)
(* the Mutex (Acquire), runs the Database method and drops the guard on    *)
(* return (Exec).  get is two such operations in a row.                    *)
(***************************************************************************)
ConcInsertPaths == {PAB, PABX}
ConcDocs == {DocPlain, DocScalar}
ConcGetPaths == {PABX}
ConcReadPaths == {PAB}
ConcReadIds == {<<"x">>}

InsertsStarted == Cardinality({i \in Procs : call[i].op = "insert"})

CallInsert(i, path, json) ==
  /\ pc[i] = "idle"
  /\ InsertsStarted < MaxInserts
  /\ call' = [call EXCEPT ![i] = [NoCall EXCEPT !.op = "insert", !.path = path, !.json = json]]
  /\ phase' = [phase EXCEPT ![i] = "insert"]
  /\ pc' = [pc EXCEPT ![i] = "lock"]
  /\ UNCHANGED <<data, uuids, poisoned, last, pending, count, log, lock, ret>>

CallGet(i, path) ==
  /\ pc[i] = "idle"
  /\ call' = [call EXCEPT ![i] =
                [NoCall EXCEPT !.op = "get", !.path = path,
                               !.seen = {ConcurrentDatabase_get(data, poisoned, path)}]]
  /\ phase' = [phase EXCEPT ![i] = IF Len(Split(path, Slash)) >= 1 THEN "get_by_id" ELSE "get_all"]
  /\ pc' = [pc EXCEPT ![i] = "lock"]
  /\ UNCHANGED <<data, uuids, poisoned, last, pending, count, log, lock, ret>>

CallGetAll(i, path) ==
  /\ pc[i] = "idle"
  /\ call' = [call EXCEPT ![i] = [NoCall EXCEPT !.op = "get_all", !.path = path]]
  /\ phase' = [phase EXCEPT ![i] = "get_all"]
  /\ pc' = [pc EXCEPT ![i] = "lock"]
  /\ UNCHANGED <<data, uuids, poisoned, last, pending, count, log, lock, ret>>

CallGetById(i, path, id) ==
  /\ pc[i] = "idle"
  /\ call' = [call EXCEPT ![i] = [NoCall EXCEPT !.op = "get_by_id", !.path = path, !.id = id]]
  /\ phase' = [phase EXCEPT ![i] = "get_by_id"]
  /\ pc' = [pc EXCEPT ![i] = "lock"]
  /\ UNCHANGED <<data, uuids, poisoned, last, pending, count, log, lock, ret>>

\* Mutant: the guard is handed out although another caller holds one.
Acquire_no_wait(i) ==
  /\ pc[i] = "lock"
  /\ IF LockFails(poisoned)
     THEN /\ ret' = [ret EXCEPT ![i] = Err(LockError)]
          /\ pc' = [pc EXCEPT ![i] = "done"]
          /\ lock' = lock
     ELSE /\ lock' = i
          /\ pc' = [pc EXCEPT ![i] = "held"]
          /\ ret' = ret
  /\ UNCHANGED <<data, uuids, poisoned, last, pending, count, log, call, phase>>

\* self.lock().map_err(..)?: blocks while another caller holds the guard;
\* returns the error at once when the Mutex is poisoned.
Acquire(i) ==
  /\ pc[i] = "lock"
  /\ lock = 0
  /\ IF LockFails(poisoned)
     THEN /\ ret' = [ret EXCEPT ![i] = Err(LockError)]
          /\ pc' = [pc EXCEPT ![i] = "done"]
          /\ lock' = lock
     ELSE /\ lock' = i
          /\ pc' = [pc EXCEPT ![i] = "held"]
          /\ ret' = ret
  /\ UNCHANGED <<data, uuids, poisoned, last, pending, count, log, call, phase>>

\* Database::insert under the guard, then the guard is dropped.
ExecInsert(i) ==
  /\ pc[i] = "held" /\ lock = i /\ phase[i] = "insert"
  /\ \E id \in random_uuid(uuids) :
     \E r \in Database_insert(data, call[i].path, call[i].json, id) :
       /\ data' = r.data
       /\ uuids' = uuids \cup {id}
       /\ call' = [j \in Procs |->
                     IF j = i THEN [call[i] EXCEPT !.uuid = id]
                     ELSE IF call[j].op = "get" /\ pc[j] # "done"
                     THEN [call[j] EXCEPT !.seen =
                             @ \cup {ConcurrentDatabase_get(r.data, poisoned, call[j].path)}]
                     ELSE call[j]]
       /\ ret' = [ret EXCEPT ![i] = Ok(r.arc)]
       /\ count' = [count EXCEPT ![call[i].path] = @ + 1]
       /\ log' = log \cup {[path |-> call[i].path, uuid |-> id, value |-> r.arc]}
  /\ lock' = 0
  /\ pc' = [pc EXCEPT ![i] = "done"]
  /\ UNCHANGED <<poisoned, last, pending, phase>>

\* Database::get_all under the guard, then the guard is dropped.
ExecGetAll(i) ==
  /\ pc[i] = "held" /\ lock = i /\ phase[i] = "get_all"
  /\ ret' = [ret EXCEPT ![i] = Ok(Database_get_all(data, call[i].path))]
  /\ lock' = 0
  /\ pc' = [pc EXCEPT ![i] = "done"]
  /\ UNCHANGED <<data, uuids, poisoned, last, pending, count, log, call, phase>>

\* Mutant: get keeps the guard of its id lookup while it goes on to
\* self.get_all(path).
ExecGetById_keeps_guard(i) ==
  /\ pc[i] = "held" /\ lock = i /\ phase[i] = "get_by_id"
  /\ IF call[i].op = "get_by_id"
     THEN /\ ret' = [ret EXCEPT ![i] =
                       Ok(Database_get_by_id(data, call[i].path, call[i].id))]
          /\ pc' = [pc EXCEPT ![i] = "done"]
          /\ phase' = phase
          /\ lock' = 0
     ELSE LET found == Database_get_by_id(data, GetParent(call[i].path), GetTail(call[i].path))
          IN IF found.some
             THEN /\ ret' = [ret EXCEPT ![i] = Ok(found.v)]
                  /\ pc' = [pc EXCEPT ![i] = "done"]
                  /\ phase' = phase
                  /\ lock' = 0
             ELSE /\ ret' = ret
                  /\ pc' = [pc EXCEPT ![i] = "lock"]
                  /\ phase' = [phase EXCEPT ![i] = "get_all"]
                  /\ lock' = lock
  /\ UNCHANGED <<data, uuids, poisoned, last, pending, count, log, call>>

\* Database::get_by_id under the guard, then the guard is dropped.  Called
\* directly it returns the Option; called from get, Some(value) is get's
\* result and None sends get on to self.get_all(path).
ExecGetById(i) ==
  /\ pc[i] = "held" /\ lock = i /\ phase[i] = "get_by_id"
  /\ lock' = 0
  /\ IF call[i].op = "get_by_id"
     THEN /\ ret' = [ret EXCEPT ![i] =
                       Ok(Database_get_by_id(data, call[i].path, call[i].id))]
          /\ pc' = [pc EXCEPT ![i] = "done"]
          /\ phase' = phase
     ELSE LET found == Database_get_by_id(data, GetParent(call[i].path), GetTail(call[i].path))
          IN IF found.some
             THEN /\ ret' = [ret EXCEPT ![i] = Ok(found.v)]
                  /\ pc' = [pc EXCEPT ![i] = "done"]
                  /\ phase' = phase
             ELSE /\ ret' = ret
                  /\ pc' = [pc EXCEPT ![i] = "lock"]
                  /\ phase' = [phase EXCEPT ![i] = "get_all"]
  /\ UNCHANGED <<data, uuids, poisoned, last, pending, count, log, call>>

DoCallInsert == \E i \in Procs, path \in ConcInsertPaths, json \in ConcDocs : CallInsert(i, path, json)
DoCallGet == \E i \in Procs, path \in ConcGetPaths : CallGet(i, path)
DoCallGetAll == \E i \in Procs, path \in ConcReadPaths : CallGetAll(i, path)
DoCallGetById == \E i \in Procs, path \in ConcReadPaths, id \in ConcReadIds : CallGetById(i, path, id)
DoAcquire == \E i \in Procs : Acquire(i)
DoExecInsert == \E i \in Procs : ExecInsert(i)
DoExecGetAll == \E i \in Procs : ExecGetAll(i)
DoExecGetById == \E i \in Procs : ExecGetById(i)

NextConc ==
  \/ DoCallInsert \/ DoCallGet \/ DoCallGetAll \/ DoCallGetById
  \/ DoAcquire \/ DoExecInsert \/ DoExecGetAll \/ DoExecGetById

SpecConc == Init /\ [][NextConc]_vars

\* A caller that can take a step takes it (its thread runs), and a caller
\* waiting for the Mutex gets it once it stays free.
Fairness ==
  \A i \in Procs :
    /\ WF_vars(Acquire(i))
    /\ WF_vars(ExecInsert(i))
    /\ WF_vars(ExecGetAll(i))
    /\ WF_vars(ExecGetById(i))

SpecConcFair == SpecConc /\ Fairness

NextConcErr == NextConc \/ Poison

\* Concurrent callers, with a Mutex that may become poisoned.
SpecConcErr == Init /\ [][NextConcErr]_vars

(***************************************************************************)
(* Properties                                                              *)
(***************************************************************************)
\* What the properties read off the state, written without the model's
\* operators for the store.
SizeAt(db, p) == IF p \in DOMAIN db THEN Len(db[p]) ELSE 0
Range(seq) == {seq[i] : i \in 1..Len(seq)}
CountAt(p) == IF p \in DOMAIN count THEN count[p] ELSE 0
HasSlash(path) == \E i \in 1..Len(path) : path[i] = Slash
LastSlash(path) == CHOOSE i \in 1..Len(path) :
                     /\ path[i] = Slash
                     /\ \A j \in (i + 1)..Len(path) : path[j] # Slash
\* For a path with a '/': what precedes its last '/', and what follows it.
ParentOf(path) == SubSeq(path, 1, LastSlash(path) - 1)
TailOf(path) == SubSeq(path, LastSlash(path) + 1, Len(path))
Stored(db, p, id) == p \in DOMAIN db /\ \E i \in 1..Len(db[p]) : db[p][i].k = id
DocAt(db, p, id) == db[p][CHOOSE i \in 1..Len(db[p]) : db[p][i].k = id].v

DoneInsert(i) == call[i].op = "insert" /\ pc[i] = "done" /\ ret[i].ok

\* C1: concurrent inserts at one path get pairwise distinct generated ids
\* (also as the id field they return), and every insert that has returned
\* has its document in the collection under its id, the collection holding
\* exactly one entry per returned insert: none is lost or overwritten.
C1_ConcurrentInsertsDistinctAndKept ==
  /\ \A i, j \in Procs :
       (i # j /\ DoneInsert(i) /\ DoneInsert(j) /\ call[i].path = call[j].path)
         => /\ call[i].uuid # call[j].uuid
            /\ (ret[i].v.t = "Object" /\ ret[j].v.t = "Object")
                 => ret[i].v.v["id"] # ret[j].v.v["id"]
  /\ \A i \in Procs :
       DoneInsert(i) => /\ Stored(data, call[i].path, call[i].uuid)
                        /\ DocAt(data, call[i].path, call[i].uuid) = ret[i].v
  /\ \A p \in ConcInsertPaths :
       SizeAt(data, p) = Cardinality({i \in Procs : DoneInsert(i) /\ call[i].path = p})

C1_Witness ==
  \E i, j \in Procs :
    /\ i # j /\ DoneInsert(i) /\ DoneInsert(j)
    /\ call[i].path = call[j].path
    /\ \A k \in Procs : pc[k] \in {"idle", "done"}

\* C2: with one caller, get(p + "/" + X) for an id X stored in collection p
\* returns the document stored at (p, X), unwrapped, also when p is empty,
\* when p ends in '/', and when p + "/" + X is itself a collection.
C2_GetPrefersStoredId ==
  \A p \in DOMAIN data :
    \A i \in 1..Len(data[p]) :
      (last.op = "get" /\ last.path = p \o <<Slash>> \o data[p][i].k)
        => last.result = Ok(data[p][i].v)

C2_Witness ==
  /\ last.op = "get" /\ last.path = PABX
  /\ Stored(data, PAB, <<"x">>)
  /\ SizeAt(data, PABX) > 0
  /\ last.result = Ok(DocAt(data, PAB, <<"x">>))

\* C3: with one caller, get of a path with a '/' whose parent collection is
\* unknown or lacks the last segment as an id returns the items stored
\* under the whole path, and {"items": []} when the whole path is no
\* collection.
C3_GetFallsBackToWholePath ==
  (/\ last.op = "get"
   /\ HasSlash(last.path)
   /\ ~Stored(data, ParentOf(last.path), TailOf(last.path)))
    => /\ last.result.ok
       /\ last.result.v.t = "Object"
       /\ DOMAIN last.result.v.v = {"items"}
       /\ last.result.v.v["items"] =
            JArray(IF last.path \in DOMAIN data
                   THEN [i \in 1..Len(data[last.path]) |-> data[last.path][i].v]
                   ELSE <<>>)

C3_Witness ==
  /\ last.op = "get" /\ last.path = PABX
  /\ SizeAt(data, PAB) > 0
  /\ ~Stored(data, PAB, <<"x">>)
  /\ SizeAt(data, PABX) > 0
  /\ last.result = Ok(Items(<<data[PABX][1].v>>))

C4_Case ==
  /\ last.op = "get" /\ last.path = PABNotAnId
  /\ SizeAt(data, PAB) = 1
  /\ PABNotAnId \notin DOMAIN data

\* C4 as stated: with exactly one document under /a/b and nothing at
\* /a/b/not-an-id, get("/a/b/not-an-id") returns that document in items.
C4_Original ==
  C4_Case => last.result = Ok(Items(<<data[PAB][1].v>>))

\* C4, amended: with exactly one document under /a/b and nothing at
\* /a/b/not-an-id, get("/a/b/not-an-id") returns {"items": []}.
C4_Amended ==
  C4_Case => last.result = Ok(Items(<<>>))

C4_Witness == C4_Case /\ last.result.ok

\* C5: get of a path without '/' returns get_all of that path, the items
\* stored under it, whatever earlier inserts populated.
C5_NoSlashGetIsGetAll ==
  (last.op = "get" /\ ~HasSlash(last.path))
    => last.result =
         Ok(Items(IF last.path \in DOMAIN data
                  THEN [i \in 1..Len(data[last.path]) |-> data[last.path][i].v]
                  ELSE <<>>))

\* C6: get_by_id(p, id) returns the document a prior insert at p returned
\* when that insert generated id, and absent for every other pair, an id
\* generated at another path included.
C6_GetByIdExact ==
  last.op = "get_by_id"
    => IF \E r \in log : r.path = last.path /\ r.uuid = last.id
       THEN \A r \in log : (r.path = last.path /\ r.uuid = last.id)
                              => last.result = Ok(Some(r.value))
       ELSE last.result = Ok(None)

C6_Witness ==
  /\ last.op = "get_by_id"
  /\ \E r \in log : r.uuid = last.id /\ r.path # last.path
  /\ SizeAt(data, last.path) > 0
  /\ last.result = Ok(None)

\* C7: get_all(p) returns {"items": L} with as many elements as inserts
\* were made at p, the elements being, as a set, what those inserts
\* returned; inserts at other paths add nothing.
C7_GetAllIsWhatWasInserted ==
  last.op = "get_all"
    => /\ last.result.ok
       /\ last.result.v.t = "Object"
       /\ DOMAIN last.result.v.v = {"items"}
       /\ last.result.v.v["items"].t = "Array"
       /\ Len(last.result.v.v["items"].v) = CountAt(last.path)
       /\ Range(last.result.v.v["items"].v) = {r.value : r \in {x \in log : x.path = last.path}}

C7_Witness ==
  /\ last.op = "get_all"
  /\ CountAt(last.path) = 2
  /\ Len(last.result.v.v["items"].v) = 2

\* C8: an object document comes back, and is stored, with id set to the
\* generated identifier (replacing an id it had), its other fields
\* unchanged and no field added.
C8_ObjectGetsId ==
  (last.op = "insert" /\ last.result.ok /\ last.json.t = "Object")
    => /\ last.result.v.t = "Object"
       /\ DOMAIN last.result.v.v = DOMAIN last.json.v \cup {"id"}
       /\ last.result.v.v["id"] = JString(last.uuid)
       /\ \A f \in DOMAIN last.json.v \ {"id"} : last.result.v.v[f] = last.json.v[f]
       /\ Stored(data, last.path, last.uuid)
       /\ DocAt(data, last.path, last.uuid) = last.result.v

C8_Witness ==
  /\ last.op = "insert" /\ last.result.ok
  /\ last.json = DocWithId
  /\ last.uuid # <<"x">>
  /\ last.result.v.v["id"] = JString(last.uuid)

\* C9: a non-object document is returned and stored verbatim, with no id,
\* under the generated key; it is among the items of its collection, which
\* the insert makes one larger.
C9_NonObjectVerbatim ==
  [][(uuids' # uuids /\ last'.json.t # "Object")
       => /\ last'.op = "insert"
          /\ last'.result = Ok(last'.json)
          /\ Stored(data', last'.path, last'.uuid)
          /\ DocAt(data', last'.path, last'.uuid) = last'.json
          /\ last'.json \in Range(Database_get_all(data', last'.path).v["items"].v)
          /\ SizeAt(data', last'.path) = SizeAt(data, last'.path) + 1]_vars

C9_Witness ==
  /\ last.op = "insert" /\ last.result = Ok(DocArray)
  /\ SizeAt(data, last.path) = 2

\* C10: not-found is no error.  With the lock obtained, get_all of a path
\* nothing was inserted at returns Ok({"items": []}), get_by_id of an
\* unknown path or id returns Ok(absent), and get returns Ok; the one error
\* a call returns is the lock error, and only from a poisoned Mutex.
C10_NotFoundIsNoError ==
  last.op # "none"
    => /\ last.result.ok \/ (last.result = Err(LockError) /\ poisoned)
       /\ ~poisoned => last.result.ok
       /\ (~poisoned /\ last.op = "get_all" /\ CountAt(last.path) = 0)
            => last.result = Ok(Items(<<>>))
       /\ (~poisoned /\ last.op = "get_by_id"
             /\ ~\E r \in log : r.path = last.path /\ r.uuid = last.id)
            => last.result = Ok(None)

C10_Witness ==
  /\ ~poisoned
  /\ last.op = "get_by_id"
  /\ SizeAt(data, last.path) > 0
  /\ ~Stored(data, last.path, last.id)
  /\ last.result = Ok(None)

\* C11: a call that reaches lock() on a poisoned Mutex returns the error
\* "Cannot obtain lock", never a value, whichever of insert, get_all,
\* get_by_id and get it is and, for get, at the id lookup as at the fallback
\* get_all; the store is left as it was.
C11_PoisonedLockIsAnError ==
  [][\A i \in Procs :
       (pc[i] = "lock" /\ pc'[i] # "lock" /\ poisoned)
         => /\ pc'[i] = "done"
            /\ ~ret'[i].ok /\ ret'[i].v = LockError
            /\ data' = data
            /\ lock' = lock]_vars

C11_Witness ==
  \E i \in Procs :
    /\ call[i].op = "get" /\ phase[i] = "get_all"
    /\ pc[i] = "done"
    /\ ~ret[i].ok /\ ret[i].v = LockError
    /\ data # <<>>

\* C12: what is stored at (p, id) is never changed or removed: after every
\* step the collection is still there, is no smaller, and holds the same
\* document under id, which get_by_id(p, id) returns.
C12_StoredNeverChanges ==
  [][\A p \in DOMAIN data :
       /\ p \in DOMAIN data'
       /\ Len(data'[p]) >= Len(data[p])
       /\ \A i \in 1..Len(data[p]) :
            /\ Stored(data', p, data[p][i].k)
            /\ DocAt(data', p, data[p][i].k) = data[p][i].v
            /\ Database_get_by_id(data', p, data[p][i].k) = Some(data[p][i].v)]_vars

C12_Witness ==
  /\ last.op = "insert" /\ last.result.ok
  /\ SizeAt(data, last.path) = 2
  /\ \E i \in 1..2 : data[last.path][i].k # last.uuid

\* C13: get_all, get_by_id and get leave the store as it was (a read of an
\* unknown path creates no collection), and a read repeated with the same
\* arguments right after itself returns the same result.
C13_ReadsChangeNothing ==
  [][last'.op \in {"get", "get_all", "get_by_id"}
       => /\ data' = data
          /\ uuids' = uuids /\ count' = count /\ log' = log
          /\ (last.op = last'.op /\ last.path = last'.path /\ last.id = last'.id)
               => last'.result = last.result]_vars

C13_Witness ==
  /\ last.op = "get_all" /\ last.path = PABNotAnId
  /\ data # <<>>
  /\ PABNotAnId \notin DOMAIN data

\* C18: every object stored under key k of a collection has the id field
\* k, whatever id the client sent; and every collection of the store holds
\* at least one document.
C18_StoredIdIsKey ==
  \A p \in DOMAIN data :
    /\ Len(data[p]) >= 1
    /\ \A i \in 1..Len(data[p]) :
         data[p][i].v.t = "Object"
           => /\ "id" \in DOMAIN data[p][i].v.v
              /\ data[p][i].v.v["id"] = JString(data[p][i].k)

C18_Witness ==
  \E p \in DOMAIN data :
    \E i \in 1..Len(data[p]) :
      /\ data[p][i].k = <<"y">>
      /\ [path |-> p, uuid |-> <<"y">>, value |-> add_id(DocWithId, <<"y">>)] \in log
      /\ data[p][i].v.t = "Object"
      /\ data[p][i].v.v["id"] = JString(<<"y">>)

\* C14: a GET answers 200 with the JSON result whenever the store call
\* succeeds, which it does for unknown paths and ids too, and 500 with
\* {"error": message} exactly when the store returns the lock error; a POST
\* answers 201 with the stored document on success and 500 with the error
\* envelope exactly on the lock error.
C14_HttpStatus ==
  last.op \in {"GET", "POST"}
    => /\ ~poisoned => last.result.ok
       /\ last.result.ok
            => /\ last.response.status = IF last.op = "GET" THEN 200 ELSE 201
               /\ last.response.contentType = "application/json"
               /\ last.response.body = last.result.v
       /\ ~last.result.ok
            => /\ last.result.v = "Cannot obtain lock"
               /\ last.response.status = 500
               /\ last.response.body.t = "Object"
               /\ DOMAIN last.response.body.v = {"error"}
               /\ last.response.body.v["error"] = JString("Cannot obtain lock")
       /\ (last.op = "POST" /\ last.result.ok)
            => /\ Stored(data, last.path, last.uuid)
               /\ last.response.body = DocAt(data, last.path, last.uuid)

C14_Witness ==
  /\ last.op = "GET" /\ last.path = ItemPath(PAB, <<"y">>)
  /\ SizeAt(data, PAB) > 0
  /\ ~Stored(data, PAB, <<"y">>)
  /\ last.response.status = 200
  /\ last.response.body.v["items"] = JArray(<<>>)

\* C15: one lock guards the whole store.  At most one of the operations
\* insert, get_all, get_by_id is inside the store at any instant, reads
\* included, and it is the one holding the lock; so what a get_all or a
\* get_by_id returns is made of documents of inserts that have completed.
C15_OneOperationInsideTheStore ==
  /\ Cardinality({i \in Procs : pc[i] = "held"}) <= 1
  /\ \A i \in Procs : pc[i] = "held" <=> lock = i
  /\ \A i \in Procs :
       (pc[i] = "done" /\ ret[i].ok /\ call[i].op = "get_all")
         => /\ Len(ret[i].v.v["items"].v) <= CountAt(call[i].path)
            /\ Range(ret[i].v.v["items"].v)
                 \subseteq {r.value : r \in {x \in log : x.path = call[i].path}}
  /\ \A i \in Procs :
       (pc[i] = "done" /\ ret[i].ok /\ call[i].op = "get_by_id" /\ ret[i].v.some)
         => [path |-> call[i].path, uuid |-> call[i].id, value |-> ret[i].v.v] \in log

C15_Witness ==
  \E i, j \in Procs :
    /\ pc[i] = "held" /\ phase[i] = "get_all" /\ lock = i
    /\ pc[j] = "lock" /\ phase[j] = "insert"
    /\ SizeAt(data, PAB) > 0

\* C16: get is atomic with respect to concurrent inserts: what a get
\* returns is the dispatch rule (the document at (parent, tail) if there is
\* one, else get_all of the whole path) evaluated on one store state that
\* existed between its invocation and its return.
C16_GetIsAtomic ==
  \A i \in Procs :
    (call[i].op = "get" /\ pc[i] = "done" /\ ret[i].ok)
      => \E r \in call[i].seen : r.ok /\ r.v = ret[i].v

\* C17: with the Mutex not poisoned and callers scheduled fairly, every
\* call that has started returns and the Mutex becomes free again; a caller
\* never waits for the Mutex while holding it (get drops the guard of its
\* id lookup before its get_all asks for the lock).
C17_EveryCallReturns ==
  /\ [](\A i \in Procs : pc[i] = "lock" => lock # i)
  /\ \A i \in Procs : (pc[i] \in {"lock", "held"}) ~> (pc[i] = "done")
  /\ (lock # 0) ~> (lock = 0)

C17_Witness ==
  \E i, j \in Procs :
    /\ call[i].op = "get" /\ phase[i] = "get_all" /\ pc[i] = "done" /\ ret[i].ok
    /\ call[j].op = "insert" /\ pc[j] = "done"
    /\ lock = 0

====
